---- MODULE Spec2Model ----
(***************************************************************************)
(* Model of the date-range, completeness and resampling utilities of       *)
(* flexmeasures_entsoe/utils.py:                                           *)
(*   abort_if_data_incomplete, parse_from_and_to_dates, resample_if_needed *)
(* Each utility is a pure function of its arguments (and, for the date     *)
(* parser, of the clock).  A call is modelled as: Init draws the arguments *)
(* from bounded sets (pc = "call"), one action applies the function and    *)
(* stores what it returns or raises in ret (pc = "done").                  *)
(***************************************************************************)
EXTENDS Integers, Sequences, FiniteSets

VARIABLES pc, op, args, ret

vars == <<pc, op, args, ret>>

(***************************************************************************)
(* Arithmetic helpers                                                      *)
(***************************************************************************)
Abs(x) == IF x < 0 THEN -x ELSE x

\* floor(a / b) for b > 0 (the spec's floor)
FloorDiv(a, b) == a \div b

\* ceil(a / b) for b > 0
CeilDiv(a, b) == -((-a) \div b)

\* int(a / b) for b > 0: Python's int() of the quotient truncates toward zero
TruncDiv(a, b) == IF a >= 0 THEN a \div b ELSE -((-a) \div b)

RECURSIVE GCD(_, _)
GCD(a, b) == IF b = 0 THEN a ELSE GCD(b, a % b)

(***************************************************************************)
(* abort_if_data_incomplete(data, from_time, until_time, resolution)       *)
(* Times are in hours, data is represented by len(data).                   *)
(***************************************************************************)
MaxPeriods == 25
MaxTime == 24
MaxResolution == 3

\* expected_periods = int((until_time - from_time) / resolution)
expected_periods(from_time, until_time, resolution) ==
    TruncDiv(until_time - from_time, resolution)

\* a comparison slip: an exactly complete result is rejected as well
abort_if_data_incomplete_le(len_data, from_time, until_time, resolution) ==
    IF len_data <= expected_periods(from_time, until_time, resolution)
    THEN [status |-> "Abort",
          expected |-> expected_periods(from_time, until_time, resolution),
          observed |-> len_data]
    ELSE [status |-> "ok"]

\* if len(data) < expected_periods: raise click.Abort
abort_if_data_incomplete(len_data, from_time, until_time, resolution) ==
    IF len_data < expected_periods(from_time, until_time, resolution)
    THEN [status |-> "Abort",
          expected |-> expected_periods(from_time, until_time, resolution),
          observed |-> len_data]
    ELSE [status |-> "ok"]

InitIncomplete ==
    /\ pc = "call"
    /\ op = "abort_if_data_incomplete"
    /\ \E n \in 0..MaxPeriods, f \in 0..MaxTime, u \in 0..MaxTime,
          r \in 1..MaxResolution :
         args = [len_data |-> n, from_time |-> f, until_time |-> u,
                 resolution |-> r]
    /\ ret = [status |-> "pending"]

AbortIfDataIncomplete ==
    /\ pc = "call"
    /\ op = "abort_if_data_incomplete"
    /\ ret' = abort_if_data_incomplete(args.len_data, args.from_time,
                                       args.until_time, args.resolution)
    /\ pc' = "done"
    /\ UNCHANGED <<op, args>>

NextIncomplete == AbortIfDataIncomplete

SpecIncomplete == InitIncomplete /\ [][NextIncomplete]_vars

HoursPerDay == 24

None == <<>>
Some(x) == <<x>>
IsNone(o) == o = <<>>
Value(o) == o[1]

\* pytz.timezone(country_timezone): standard and DST offsets and the UTC
\* instants between which DST is in force (2025 rules of the tz database:
\* Europe/Amsterdam 2025-03-30 01:00 UTC .. 2025-10-26 01:00 UTC).
TimeZones ==
    { [name |-> "UTC", std |-> 0, dst |-> 0, dst_from |-> 0, dst_until |-> 0],
      [name |-> "Europe/Amsterdam", std |-> 1, dst |-> 2,
       dst_from |-> 2113, dst_until |-> 7153] }

\* tzinfo.utcoffset at a UTC instant
utcoffset(tz, utc) ==
    IF tz.dst_from <= utc /\ utc < tz.dst_until THEN tz.dst ELSE tz.std

\* datetime.now(tz): wall clock of the zone, tzinfo fixed at the offset in
\* force now
datetime_now(tz, clock) ==
    [wall |-> clock + utcoffset(tz, clock), offset |-> utcoffset(tz, clock)]

\* now.replace(hour=0, minute=0, second=0, microsecond=0): the wall-clock
\* fields change, the tzinfo (and so the offset) stays
replace_midnight(dt) ==
    [wall |-> (dt.wall \div HoursPerDay) * HoursPerDay, offset |-> dt.offset]

\* aware datetime + timedelta(days=n): wall-clock arithmetic, same tzinfo
plus_days(dt, n) == [wall |-> dt.wall + n * HoursPerDay, offset |-> dt.offset]

\* pd.Timestamp(aware datetime): the instant is wall clock minus utcoffset
Timestamp(dt) == dt.wall - dt.offset

\* pd.Timestamp(naive, tzinfo=tz) -> tz.localize(naive) (is_dst=False): the
\* offset under which the wall time exists; the standard one when both or
\* neither do
localize(tz, wall) ==
    IF utcoffset(tz, wall - tz.dst) = tz.dst /\ utcoffset(tz, wall - tz.std) # tz.std
    THEN wall - tz.dst
    ELSE wall - tz.std

\* naive midnight of a calendar day
midnight(day) == day * HoursPerDay

ValidDefaultTo == {"today", "tomorrow", "today-and-tomorrow"}

\* a fall-through slip: an unknown default_to is treated as the default
default_range_lenient(default_to, today_start) ==
    IF default_to = "today"
    THEN [status |-> "ok", default_start |-> today_start,
          default_end |-> plus_days(today_start, 1)]
    ELSE IF default_to = "tomorrow"
    THEN [status |-> "ok", default_start |-> plus_days(today_start, 1),
          default_end |-> plus_days(plus_days(today_start, 1), 1)]
    ELSE [status |-> "ok", default_start |-> today_start,
          default_end |-> plus_days(today_start, 2)]

\* the if / elif / else on default_to
default_range(default_to, today_start) ==
    IF default_to = "today"
    THEN [status |-> "ok", default_start |-> today_start,
          default_end |-> plus_days(today_start, 1)]
    ELSE IF default_to = "tomorrow"
    THEN [status |-> "ok", default_start |-> plus_days(today_start, 1),
          default_end |-> plus_days(plus_days(today_start, 1), 1)]
    ELSE IF default_to = "today-and-tomorrow"
    THEN [status |-> "ok", default_start |-> today_start,
          default_end |-> plus_days(today_start, 2)]
    ELSE [status |-> "ValueError"]

parse_from_and_to_dates(from_date, until_date, tz, default_to, clock) ==
    LET now == datetime_now(tz, clock)
        today_start == replace_midnight(now)
        d == default_range(default_to, today_start)
    IN  IF d.status # "ok"
        THEN [status |-> "ValueError"]
        ELSE [status |-> "ok",
              start |-> IF IsNone(from_date)
                        THEN Timestamp(d.default_start)
                        ELSE localize(tz, midnight(Value(from_date))),
              end |-> IF IsNone(until_date)
                      THEN Timestamp(d.default_end)
                      ELSE localize(tz, midnight(Value(until_date)))
                           + HoursPerDay]

\* The clock is read within ClockWindow days of: the start of DST (day 88,
\* 2025-03-30), an ordinary day (day 120, 2025-05-01) and the end of DST
\* (day 298, 2025-10-26); dates are given within DateWindow days of the
\* clock's day.
ClockWindow == 1
DateWindow == 1
AnchorDays == {88, 120, 298}

ClockTimes ==
    { a * HoursPerDay + h :
        a \in AnchorDays, h \in (-ClockWindow * HoursPerDay) ..
                                ((ClockWindow + 1) * HoursPerDay - 1) }

OptionalDates(clock) ==
    {None} \cup { Some(clock \div HoursPerDay + k) : k \in -DateWindow..DateWindow }

DefaultToInputs == ValidDefaultTo \cup {"yesterday"}

InitDates ==
    /\ pc = "call"
    /\ op = "parse_from_and_to_dates"
    /\ \E clock \in ClockTimes, tz \in TimeZones, dflt \in DefaultToInputs :
         \E f \in OptionalDates(clock), u \in OptionalDates(clock) :
            args = [from_date |-> f, until_date |-> u, tz |-> tz,
                    default_to |-> dflt, clock |-> clock]
    /\ ret = [status |-> "pending"]

ParseFromAndToDates ==
    /\ pc = "call"
    /\ op = "parse_from_and_to_dates"
    /\ ret' = parse_from_and_to_dates(args.from_date, args.until_date, args.tz,
                                      args.default_to, args.clock)
    /\ pc' = "done"
    /\ UNCHANGED <<op, args>>

NextDates == ParseFromAndToDates

SpecDates == InitDates /\ [][NextDates]_vars

ParsedDates == pc = "done" /\ op = "parse_from_and_to_dates"

\* the calendar day the zone's wall clock shows at the clock instant
LocalDay(tz, clock) == (clock + utcoffset(tz, clock)) \div HoursPerDay

\* the instant at which a calendar day begins in the zone
LocalMidnight(tz, day) == localize(tz, midnight(day))

\* C2: with from_date = None and until_date = None, every valid default_to
\* and every current time give a range anchored at local midnight:
\* "today" -> [midnight today, +1 day), "tomorrow" -> [midnight tomorrow,
\* +1 day), "today-and-tomorrow" -> [midnight today, +2 days).
C2_DefaultRangeAtLocalMidnight ==
    (/\ ParsedDates
     /\ IsNone(args.from_date) /\ IsNone(args.until_date)
     /\ args.default_to \in ValidDefaultTo) =>
        LET today == LocalDay(args.tz, args.clock)
            first == IF args.default_to = "tomorrow" THEN today + 1 ELSE today
            days  == IF args.default_to = "today-and-tomorrow" THEN 2 ELSE 1
        IN  /\ ret.status = "ok"
            /\ ret.start = LocalMidnight(args.tz, first)
            /\ ret.end - ret.start = days * HoursPerDay

\* C3: each bound is resolved independently: start is the localized
\* from_date when given, the default-policy start otherwise; end is the
\* localized until_date plus 24 hours when given, the default-policy end
\* otherwise; with both given the result does not depend on default_to, and
\* from_date = until_date yields exactly 00:00 to 24:00 of that day.
C3_BoundsResolvedIndependently ==
    (ParsedDates /\ args.default_to \in ValidDefaultTo) =>
        LET d == default_range(args.default_to,
                               replace_midnight(datetime_now(args.tz, args.clock)))
        IN  /\ ret.status = "ok"
            /\ IsNone(args.from_date) => ret.start = Timestamp(d.default_start)
            /\ ~IsNone(args.from_date) =>
                  ret.start = LocalMidnight(args.tz, Value(args.from_date))
            /\ IsNone(args.until_date) => ret.end = Timestamp(d.default_end)
            /\ ~IsNone(args.until_date) =>
                  ret.end = LocalMidnight(args.tz, Value(args.until_date))
                            + HoursPerDay
            /\ (~IsNone(args.from_date) /\ ~IsNone(args.until_date)) =>
                  \A other \in ValidDefaultTo :
                     parse_from_and_to_dates(args.from_date, args.until_date,
                                             args.tz, other, args.clock) = ret
            /\ (~IsNone(args.from_date) /\ args.from_date = args.until_date) =>
                  /\ ret.start = LocalMidnight(args.tz, Value(args.from_date))
                  /\ ret.end = LocalMidnight(args.tz, Value(args.from_date) + 1)

\* C4: every returned TimeRange has end > start, whichever bounds are given
\* or omitted and whatever the valid default_to.
C4_EndAfterStart ==
    (ParsedDates /\ ret.status = "ok") => ret.end > ret.start

\* C9: parse_from_and_to_dates raises ValueError exactly for the default_to
\* values outside {"today", "tomorrow", "today-and-tomorrow"}, whether or not
\* from_date and until_date are given, and then returns no range.
C9_InvalidDefaultToRejected ==
    ParsedDates =>
        /\ (ret.status = "ValueError") <=> (args.default_to \notin ValidDefaultTo)
        /\ (ret.status = "ok") <=> (args.default_to \in ValidDefaultTo)
        /\ (args.default_to \notin ValidDefaultTo) => DOMAIN ret = {"status"}

\* an unknown default_to is rejected although both dates are given
C9_Witness ==
    /\ ParsedDates
    /\ args.default_to \notin ValidDefaultTo
    /\ ~IsNone(args.from_date) /\ ~IsNone(args.until_date)
    /\ ret.status = "ValueError"

(***************************************************************************)
(* resample_if_needed(s, sensor)                                           *)
(* Timestamps and resolutions are in ticks of 15 minutes, counted from a   *)
(* local midnight.  A series is a sequence of [t, v] with strictly         *)
(* increasing t; a value is a fraction [n, d] (d = 1 for the inputs, the   *)
(* mean of a window is reduced), NaN is [n |-> 0, d |-> 0].                *)
(***************************************************************************)
TicksPerDay == 96

NaN == [n |-> 0, d |-> 0]
IsNaN(x) == x.d = 0
Num(v) == [n |-> v, d |-> 1]
Frac(n, d) == LET g == GCD(Abs(n), d) IN [n |-> n \div g, d |-> d \div g]

Index(s) == [i \in 1..Len(s) |-> s[i].t]

Deltas(index) == { index[i + 1] - index[i] : i \in 1..(Len(index) - 1) }

\* pd.infer_freq(s.index) followed by pd.to_timedelta(to_offset(...)), for a
\* monotonic index with intraday spacing: fewer than 3 timestamps raise
\* ValueError inside pandas, unequal spacings give None, otherwise the
\* common spacing is the frequency.
infer_freq(index) ==
    IF Len(index) < 3 THEN [kind |-> "raise"]
    ELSE IF Cardinality(Deltas(index)) # 1 THEN [kind |-> "None"]
    ELSE [kind |-> "freq", delta |-> index[2] - index[1]]

\* pd.date_range(start, end, freq=freq, inclusive="both")
date_range_both(start, end, freq) ==
    [i \in 1..((end - start) \div freq + 1) |-> start + (i - 1) * freq]

\* pd.date_range(start, end, freq=freq, inclusive="left"):
\* start, start + freq, ... strictly before end
date_range(start, end, freq) ==
    [i \in 1..CeilDiv(end - start, freq) |-> start + (i - 1) * freq]

\* s.reindex(index): the value at each label of index that s holds, NaN for
\* the labels s does not hold
reindex(s, index) ==
    [i \in 1..Len(index) |->
        [t |-> index[i],
         v |-> IF \E j \in 1..Len(s) : s[j].t = index[i]
               THEN s[CHOOSE j \in 1..Len(s) : s[j].t = index[i]].v
               ELSE NaN]]

\* .pad(): each NaN takes the last value before it that is not NaN
RECURSIVE pad_value(_, _)
pad_value(s, i) ==
    IF i = 0 THEN NaN
    ELSE IF ~IsNaN(s[i].v) THEN s[i].v
    ELSE pad_value(s, i - 1)

pad(s) == [i \in 1..Len(s) |-> [t |-> s[i].t, v |-> pad_value(s, i)]]

\* the grid stops at the last timestamp instead of one period after it
upsample_short(s, inferred_resolution, target_resolution) ==
    pad(reindex(s, date_range(s[1].t, s[Len(s)].t, target_resolution)))

\* index = pd.date_range(s.index[0], s.index[-1] + inferred_resolution,
\*                       freq=target_resolution, inclusive="left")
\* s = s.reindex(index).pad()
upsample(s, inferred_resolution, target_resolution) ==
    pad(reindex(s, date_range(s[1].t, s[Len(s)].t + inferred_resolution,
                              target_resolution)))

RECURSIVE SumOver(_, _)
SumOver(s, J) ==
    IF J = {} THEN 0
    ELSE LET j == CHOOSE x \in J : TRUE IN s[j].v.n + SumOver(s, J \ {j})

\* .mean() of the samples at positions J (input values have d = 1)
mean(s, J) ==
    IF J = {} THEN NaN ELSE Frac(SumOver(s, J), Cardinality(J))

\* windows closed on the right: (label - freq, label]
resample_mean_right(s, freq) ==
    LET first == s[1].t
        last == s[Len(s)].t
        origin == (first \div TicksPerDay) * TicksPerDay
        foffset == (first - origin) % freq
        loffset == (last - origin) % freq
        first_edge == IF foffset > 0 THEN first - foffset ELSE first - freq
        last_edge == IF loffset > 0 THEN last + (freq - loffset) ELSE last
        nbins == (last_edge - first_edge) \div freq
    IN  [b \in 1..nbins |->
            LET label == first_edge + b * freq
            IN  [t |-> label,
                 v |-> mean(s, { j \in 1..Len(s) :
                                   label - freq < s[j].t /\ s[j].t <= label })]]

\* s.resample(freq).mean() for a Tick frequency: windows [label, label + freq)
\* anchored at midnight of the first sample's day (origin="start_day",
\* closed="left", label="left"), from the window holding the first sample to
\* the window holding the last one
resample_mean(s, freq) ==
    LET first == s[1].t
        last == s[Len(s)].t
        origin == (first \div TicksPerDay) * TicksPerDay
        foffset == (first - origin) % freq
        loffset == (last - origin) % freq
        first_edge == IF foffset > 0 THEN first - foffset ELSE first
        last_edge == IF loffset > 0 THEN last + (freq - loffset) ELSE last + freq
        nbins == (last_edge - first_edge) \div freq
    IN  [b \in 1..nbins |->
            LET label == first_edge + (b - 1) * freq
            IN  [t |-> label,
                 v |-> mean(s, { j \in 1..Len(s) :
                                   label <= s[j].t /\ s[j].t < label + freq })]]

\* the frequency check is skipped: the first spacing is taken as resolution
resample_if_needed_unchecked(s, target_resolution) ==
    IF Len(s) < 2 THEN [status |-> "ok", series |-> s]
    ELSE LET inferred_resolution == s[2].t - s[1].t
         IN  IF inferred_resolution = target_resolution
             THEN [status |-> "ok", series |-> s]
             ELSE IF inferred_resolution > target_resolution
             THEN [status |-> "ok",
                   series |-> upsample(s, inferred_resolution, target_resolution)]
             ELSE [status |-> "ok",
                   series |-> resample_mean(s, target_resolution)]

\* the equal-resolution shortcut is missing: such a series is resampled
resample_if_needed_always(s, target_resolution) ==
    LET f == infer_freq(Index(s))
    IN  IF f.kind # "freq"
        THEN [status |-> "ValueError"]
        ELSE IF f.delta > target_resolution
        THEN [status |-> "ok",
              series |-> upsample(s, f.delta, target_resolution)]
        ELSE [status |-> "ok", series |-> resample_mean(s, target_resolution)]

resample_if_needed(s, target_resolution) ==
    LET f == infer_freq(Index(s))
    IN  IF f.kind = "raise" \/ f.kind = "None"
        THEN [status |-> "ValueError"]
        ELSE LET inferred_resolution == f.delta
             IN  IF inferred_resolution = target_resolution
                 THEN [status |-> "ok", series |-> s]
                 ELSE IF inferred_resolution > target_resolution
                 THEN [status |-> "ok",
                       series |-> upsample(s, inferred_resolution,
                                           target_resolution)]
                 ELSE [status |-> "ok",
                       series |-> resample_mean(s, target_resolution)]

\* Input series: up to MaxLen samples, the first at a tick of StartTimes,
\* consecutive spacings of 1..MaxTicks ticks (regular or not), values taken
\* in order from one of ValuePatterns; sensor resolutions 1..MaxTicks ticks.
MaxLen == 5
MaxTicks == 4
MaxStart == 2

StartTimes == 0..MaxStart \cup {TicksPerDay - 1}

ValuePatterns == { <<3, -1, 4, 1, 5, 9, 2, 6>>, <<2, 2, 7, -8, 0, 1, 1, 4>> }

RECURSIVE IndexesFrom(_, _)
IndexesFrom(index, n) ==
    IF n = 0 THEN {index}
    ELSE UNION { IndexesFrom(Append(index, index[Len(index)] + d), n - 1) :
                 d \in 1..MaxTicks }

Indexes ==
    {<<>>} \cup UNION { IndexesFrom(<<t0>>, n) :
                        t0 \in StartTimes, n \in 0..(MaxLen - 1) }

InitResample ==
    /\ pc = "call"
    /\ op = "resample_if_needed"
    /\ \E index \in Indexes, values \in ValuePatterns, r \in 1..MaxTicks :
         args = [s |-> [i \in 1..Len(index) |->
                          [t |-> index[i], v |-> Num(values[i])]],
                 event_resolution |-> r]
    /\ ret = [status |-> "pending"]

ResampleIfNeeded ==
    /\ pc = "call"
    /\ op = "resample_if_needed"
    /\ ret' = resample_if_needed(args.s, args.event_resolution)
    /\ pc' = "done"
    /\ UNCHANGED <<op, args>>

NextResample == ResampleIfNeeded

SpecResample == InitResample /\ [][NextResample]_vars

Resampled == pc = "done" /\ op = "resample_if_needed"

\* what the claims say of a series, stated without the operators above
Regular(s) ==
    /\ Len(s) >= 3
    /\ \A i \in 1..(Len(s) - 1) : s[i + 1].t - s[i].t = s[2].t - s[1].t

Spacing(s) == s[2].t - s[1].t

\* first timestamp to one period after the last
Span(s) == s[Len(s)].t + Spacing(s) - s[1].t

\* midnight of the first sample's day
DayStart(s) == (s[1].t \div TicksPerDay) * TicksPerDay

WindowAligned(t, s, target) == (t - DayStart(s)) % target = 0

\* position of the most recent sample of s at or before t
LastAtOrBefore(s, t) ==
    CHOOSE j \in 1..Len(s) :
        /\ s[j].t <= t
        /\ \A k \in 1..Len(s) : s[k].t <= t => k <= j

Upsampled ==
    Resampled /\ Regular(args.s) /\ Spacing(args.s) > args.event_resolution

Downsampled ==
    Resampled /\ Regular(args.s) /\ Spacing(args.s) < args.event_resolution

\* the output grid: spaced at the target resolution over the half-open span
\* [first_timestamp, last_timestamp + inferred_resolution)
UpsampleGrid(s, out, target) ==
    /\ Len(out) >= 1
    /\ out[1].t = s[1].t
    /\ \A i \in 1..(Len(out) - 1) : out[i + 1].t = out[i].t + target
    /\ out[Len(out)].t < s[Len(s)].t + Spacing(s)
    /\ out[Len(out)].t + target >= s[Len(s)].t + Spacing(s)

\* every output value is the most recent input value at or before it
ForwardFilled(s, out) ==
    \A i \in 1..Len(out) :
        /\ ~IsNaN(out[i].v)
        /\ \E j \in 1..Len(s) : s[j].t <= out[i].t
        /\ out[i].v = s[LastAtOrBefore(s, out[i].t)].v

\* C5 as stated: when upsampling, the output grid is spaced at the target
\* resolution over [first_timestamp, last_timestamp + inferred_resolution),
\* every output value equals the most recent input value at or before its
\* timestamp, and the output length equals span / target_resolution, for
\* every pair of resolutions (also a target that does not evenly divide the
\* inferred resolution).
C5_UpsampleForwardFillAnyResolutions ==
    Upsampled =>
        /\ ret.status = "ok"
        /\ UpsampleGrid(args.s, ret.series, args.event_resolution)
        /\ ForwardFilled(args.s, ret.series)
        /\ Len(ret.series) * args.event_resolution = Span(args.s)

\* the input samples whose timestamps lie on the output grid
OnGrid(s, out) ==
    SelectSeq(s, LAMBDA x : \E i \in 1..Len(out) : out[i].t = x.t)

\* C5 amended: when upsampling, the output grid is spaced at the target
\* resolution over [first_timestamp, last_timestamp + inferred_resolution),
\* no output value is undefined, every output value equals the most recent
\* input value at or before it among the inputs whose timestamps lie on the
\* output grid, and the output length is ceil(span / target_resolution);
\* when the target evenly divides the inferred resolution every input lies
\* on the grid, so every output value is the most recent input value at or
\* before it and the length is exactly span / target_resolution.
C5_UpsampleForwardFill ==
    Upsampled =>
        /\ ret.status = "ok"
        /\ UpsampleGrid(args.s, ret.series, args.event_resolution)
        /\ ForwardFilled(OnGrid(args.s, ret.series), ret.series)
        /\ (Len(ret.series) - 1) * args.event_resolution < Span(args.s)
        /\ Len(ret.series) * args.event_resolution >= Span(args.s)
        /\ (Spacing(args.s) % args.event_resolution = 0) =>
              /\ ForwardFilled(args.s, ret.series)
              /\ Len(ret.series) * args.event_resolution = Span(args.s)

\* an upsampling by an even factor of at least 2: blocks of equal values
C5_Witness ==
    /\ Upsampled
    /\ Spacing(args.s) % args.event_resolution = 0
    /\ Len(ret.series) = 2 * Len(args.s)
    /\ ret.series[1].v = args.s[1].v /\ ret.series[2].v = args.s[1].v
    /\ ret.series[3].v = args.s[2].v /\ ret.series[3].v # args.s[1].v

\* the input positions falling in the window [label, label + target)
Members(s, label, target) ==
    { j \in 1..Len(s) : label <= s[j].t /\ s[j].t < label + target }

RECURSIVE SumValues(_, _)
SumValues(s, J) ==
    IF J = {} THEN 0
    ELSE LET j == CHOOSE x \in J : TRUE IN s[j].v.n + SumValues(s, J \ {j})

\* C6: when downsampling, the input samples are partitioned into consecutive
\* non-overlapping windows of length target_resolution aligned to calendar
\* boundaries (multiples of the target resolution from midnight), every input
\* sample falls in exactly one window, and each output value is the
\* arithmetic mean of exactly the samples in its window.
C6_DownsampleWindowMeans ==
    Downsampled =>
        LET s == args.s
            out == ret.series
            target == args.event_resolution
        IN  /\ ret.status = "ok"
            /\ Len(out) >= 1
            /\ \A i \in 1..(Len(out) - 1) : out[i + 1].t = out[i].t + target
            /\ \A i \in 1..Len(out) : WindowAligned(out[i].t, s, target)
            /\ \A j \in 1..Len(s) :
                  Cardinality({ i \in 1..Len(out) :
                                  j \in Members(s, out[i].t, target) }) = 1
            /\ \A i \in 1..Len(out) :
                  LET M == Members(s, out[i].t, target)
                  IN  /\ M # {}
                      /\ out[i].v.d > 0
                      /\ out[i].v.n * Cardinality(M) = out[i].v.d * SumValues(s, M)

\* a window that averages two samples to a value neither of them has, in a
\* series whose first sample is not on a window boundary
C6_Witness ==
    /\ Downsampled
    /\ ~WindowAligned(args.s[1].t, args.s, args.event_resolution)
    /\ \E i \in 1..Len(ret.series) :
          /\ Cardinality(Members(args.s, ret.series[i].t, args.event_resolution)) = 2
          /\ ret.series[i].v.d = 2

\* C7 as stated: downsampling returns strictly fewer samples, upsampling
\* strictly more, and the output covers the same time span as the input
\* (first output timestamp = first input timestamp, output end = last input
\* timestamp + inferred resolution), also for a first sample off a window
\* boundary and for resolutions that are not multiples of each other.
C7_SampleCountAndSpanAnyInput ==
    (Upsampled \/ Downsampled) =>
        LET s == args.s
            out == ret.series
            target == args.event_resolution
        IN  /\ ret.status = "ok"
            /\ Downsampled => Len(out) < Len(s)
            /\ Upsampled => Len(out) > Len(s)
            /\ out[1].t = s[1].t
            /\ out[Len(out)].t + target = s[Len(s)].t + Spacing(s)

\* C7 amended: upsampling returns strictly more samples and starts at the
\* first input timestamp, and its end (last output + target resolution) is
\* last input + inferred resolution exactly when the target divides the input
\* span.  Downsampling never returns more samples than its input, and
\* strictly fewer when the target is a multiple of the inferred resolution;
\* its first timestamp is the start of the window holding the first input
\* (the first input itself exactly when that is on a window boundary) and its
\* end is last input + inferred resolution exactly when that instant is on a
\* window boundary.
C7_SampleCountAndSpan ==
    (Upsampled \/ Downsampled) =>
        LET s == args.s
            out == ret.series
            target == args.event_resolution
            in_end == s[Len(s)].t + Spacing(s)
            out_end == out[Len(out)].t + target
        IN  /\ ret.status = "ok"
            /\ Upsampled =>
                  /\ Len(out) > Len(s)
                  /\ out[1].t = s[1].t
                  /\ (out_end = in_end) <=> (Span(s) % target = 0)
            /\ Downsampled =>
                  /\ Len(out) <= Len(s)
                  /\ (target % Spacing(s) = 0) => Len(out) < Len(s)
                  /\ out[1].t <= s[1].t /\ s[1].t < out[1].t + target
                  /\ (out[1].t = s[1].t) <=> WindowAligned(s[1].t, s, target)
                  /\ (out_end = in_end) <=> WindowAligned(in_end, s, target)

\* a downsampling of an aligned series to a multiple of its resolution that
\* keeps the span with fewer samples
C7_Witness ==
    /\ Downsampled
    /\ args.event_resolution % Spacing(args.s) = 0
    /\ WindowAligned(args.s[1].t, args.s, args.event_resolution)
    /\ Len(ret.series) < Len(args.s)
    /\ ret.series[1].t = args.s[1].t
    /\ ret.series[Len(ret.series)].t + args.event_resolution
         = args.s[Len(args.s)].t + Spacing(args.s)

\* C8: resample_if_needed raises ValueError and returns no series whenever
\* no frequency can be inferred from the timestamps (irregular spacing, or
\* too few points: a single-point series), whatever the sensor's event
\* resolution.
C8_UnresolvableFrequencyRaises ==
    (Resampled /\ ~Regular(args.s)) =>
        /\ ret.status = "ValueError"
        /\ DOMAIN ret = {"status"}
        /\ \A r \in 1..MaxTicks :
              resample_if_needed(args.s, r) = [status |-> "ValueError"]

\* an irregular series of three or more samples is rejected
C8_Witness ==
    /\ Resampled
    /\ Len(args.s) >= 3
    /\ args.s[2].t - args.s[1].t = args.event_resolution
    /\ args.s[3].t - args.s[2].t # args.s[2].t - args.s[1].t
    /\ ret.status = "ValueError"

\* C10: when the inferred resolution equals the sensor's event resolution,
\* resample_if_needed returns the series unchanged (same timestamps and
\* values, same order), so applying it again changes nothing.
C10_EqualResolutionIdentity ==
    (Resampled /\ Regular(args.s) /\ Spacing(args.s) = args.event_resolution) =>
        /\ ret.status = "ok"
        /\ ret.series = args.s
        /\ resample_if_needed(ret.series, args.event_resolution) = ret

\* an unchanged series whose first sample is off a window boundary
C10_Witness ==
    /\ Resampled /\ Regular(args.s)
    /\ Spacing(args.s) = args.event_resolution
    /\ ~WindowAligned(args.s[1].t, args.s, args.event_resolution)
    /\ ret.status = "ok" /\ ret.series = args.s

====
